---- MODULE Spec2Model ----
(***************************************************************************)
(* A model of mailer.py: the name normaliser, the name grammar, the        *)
(* approximate roster lookup, the affiliation-evidence gatherer, the       *)
(* per-entry accept/reject policy and the aggregation of matched authors.  *)
(*                                                                         *)
(* A Python str is a sequence of characters; a character is a one-letter   *)
(* string, except the three non-ASCII code points the model needs, which   *)
(* are written "U+00C9" (E with acute), "U+00E9" (e with acute) and        *)
(* "U+0301" (combining acute accent).  Python's None is the empty tuple.   *)
(***************************************************************************)
EXTENDS Integers, Sequences, FiniteSets, TLC

VARIABLES DEMO_MODE, people, feed, pc, idx, posts, all_authors, last,
          decisions, returned, call

vars == <<DEMO_MODE, people, feed, pc, idx, posts, all_authors, last,
          decisions, returned, call>>

pipeVars == <<DEMO_MODE, people, feed, pc, idx, posts, all_authors, last,
              decisions, returned>>

None == <<>>

(***************************************************************************)
(* Bounds of the model.                                                    *)
(***************************************************************************)
MaxNameLen == 5

MaxTextLen == 4

MaxPeople == 2

MaxFeed == 3

MaxMembers == 2

(***************************************************************************)
(* Characters.  Alphabet lists them by increasing code point, which is the *)
(* order Python compares str by.                                           *)
(***************************************************************************)
Upper == <<"A","B","C","D","E","F","G","H","I","J","K","L","M",
           "N","O","P","Q","R","S","T","U","V","W","X","Y","Z">>

Lower == <<"a","b","c","d","e","f","g","h","i","j","k","l","m",
           "n","o","p","q","r","s","t","u","v","w","x","y","z">>

Alphabet == <<" ", "%", "'", ",", "-", ".">> \o Upper \o Lower
              \o <<"{", "}", "U+00C9", "U+00E9", "U+0301">>

Ord(c) == CHOOSE k \in 1..Len(Alphabet) : Alphabet[k] = c

Range(s) == {s[k] : k \in 1..Len(s)}

Min(S) == CHOOSE x \in S : \A y \in S : x <= y

Max(S) == CHOOSE x \in S : \A y \in S : y <= x

UpperChars == Range(Upper)

\* \w of Python's re on str: alphanumerics and the underscore
WordChars == Range(Upper) \cup Range(Lower) \cup {"U+00C9", "U+00E9"}

IsWord(c) == c \in WordChars

\* str.isspace
IsSpace(c) == c = " "

\* str.casefold, one character
CaseFoldChar(c) ==
    IF c \in UpperChars
      THEN Lower[CHOOSE k \in 1..Len(Upper) : Upper[k] = c]
      ELSE IF c = "U+00C9" THEN "U+00E9" ELSE c

\* unicodedata.normalize("NFKD", .), one character
NFKDChar(c) ==
    IF c = "U+00C9" THEN <<"E", "U+0301">>
    ELSE IF c = "U+00E9" THEN <<"e", "U+0301">>
    ELSE <<c>>

(***************************************************************************)
(* str operations.                                                         *)
(***************************************************************************)
RECURSIVE LStrip(_)
LStrip(s) == IF s # <<>> /\ IsSpace(Head(s)) THEN LStrip(Tail(s)) ELSE s

RECURSIVE RStrip(_)
RStrip(s) ==
    IF s # <<>> /\ IsSpace(s[Len(s)]) THEN RStrip(SubSeq(s, 1, Len(s) - 1))
    ELSE s

\* str.strip()
Strip(s) == RStrip(LStrip(s))

\* s.startswith(p)
StartsWith(s, p) == Len(p) <= Len(s) /\ SubSeq(s, 1, Len(p)) = p

\* sub in s
Contains(s, sub) ==
    \E k \in 0..(Len(s) - Len(sub)) : SubSeq(s, k + 1, k + Len(sub)) = sub

\* ' '.join(s.split()): the whitespace-separated words, one space between
RECURSIVE JoinSplit(_)
JoinSplit(s) ==
    LET t == LStrip(s)
    IN  IF t = <<>> THEN <<>>
        ELSE LET ends == {k \in 1..Len(t) : IsSpace(t[k])}
                 n == IF ends = {} THEN Len(t) + 1 ELSE Min(ends)
                 rest == JoinSplit(SubSeq(t, n, Len(t)))
             IN  SubSeq(t, 1, n - 1)
                   \o (IF rest = <<>> THEN <<>> ELSE <<" ">> \o rest)

RECURSIVE FlatMapNFKD(_)
FlatMapNFKD(s) ==
    IF s = <<>> THEN <<>> ELSE NFKDChar(Head(s)) \o FlatMapNFKD(Tail(s))

(***************************************************************************)
(* normalize_caseless: non-word characters become spaces, the text is      *)
(* case-folded, NFKD-decomposed and stripped.                              *)
(***************************************************************************)
normalize_caseless(text) ==
    LET spaced == [k \in 1..Len(text) |->
                      IF IsWord(text[k]) THEN text[k] ELSE " "]
        folded == [k \in 1..Len(spaced) |-> CaseFoldChar(spaced[k])]
    IN  Strip(FlatMapNFKD(folded))

(***************************************************************************)
(* NAME_RE.match(s).  The pattern is: start, one or more times the group   *)
(* "first" (a word character, captured as "initial", then anything, then a *)
(* run of '.' and ' '), then the group "last" (a word character, then      *)
(* anything), end.  The greedy "anything" makes the group run once, up to  *)
(* the last '.' or ' ' that a word character follows.                      *)
(***************************************************************************)
NameCuts(s) ==
    {q \in 2..(Len(s) - 1) : s[q] \in {".", " "} /\ IsWord(s[q + 1])}

\* whether NAME_RE.match(s) is a match
NAME_RE(s) == Len(s) >= 3 /\ IsWord(s[1]) /\ NameCuts(s) # {}

\* NAME_RE.match(s).groupdict(), for a match
groupdict(s) ==
    LET q == Max(NameCuts(s))
    IN  [first |-> SubSeq(s, 1, q),
         initial |-> <<s[1]>>,
         last |-> SubSeq(s, q + 1, Len(s))]

\* INITIAL_RE.match(s): a word character, then '.', whitespace or the end
INITIAL_RE(s) ==
    /\ Len(s) >= 1
    /\ IsWord(s[1])
    /\ (Len(s) = 1 \/ s[2] = "." \/ IsSpace(s[2]))

\* The positions ALL_INITIALS_RE (boundary, word character, optional '.')
\* matches in s: every word character at a word boundary, and the '.'
\* right after it.
ALL_INITIALS_RE(s) ==
    LET starts == {k \in 1..Len(s) :
                      IsWord(s[k]) /\ (k = 1 \/ ~IsWord(s[k - 1]))}
    IN  starts \cup {k \in 2..Len(s) : s[k] = "." /\ (k - 1) \in starts}

RECURSIVE Remove(_, _, _)
Remove(s, gone, k) ==
    IF k > Len(s) THEN <<>>
    ELSE (IF k \in gone THEN <<>> ELSE <<s[k]>>) \o Remove(s, gone, k + 1)

\* ' '.join(ALL_INITIALS_RE.sub('', names).split())
strip_initials(names) == JoinSplit(Remove(names, ALL_INITIALS_RE(names), 1))

(***************************************************************************)
(* approximate_name_lookup.  people is the roster in insertion order: a    *)
(* sequence of [key |-> <<last, first>>, rec |-> record].                  *)
(***************************************************************************)
\* the body of the loop over people: the score of one candidate
CandidateScore(person_last, person_first, first_names, first_initial, last_name) ==
    IF person_last # last_name THEN 0
    ELSE IF person_first = first_names THEN 2
    ELSE IF StartsWith(first_names, person_first) THEN 2
    ELSE IF first_names # first_initial /\ Contains(person_first, first_names)
      THEN (IF StartsWith(strip_initials(first_names), person_first)
              THEN 2 ELSE 0)
    ELSE IF Contains(first_names, person_first)
      THEN (IF StartsWith(strip_initials(first_names), person_first)
              THEN 2 ELSE 0)
    ELSE IF person_first[1] = first_initial[1]
      THEN (IF INITIAL_RE(first_names) THEN 1 ELSE 0)
    ELSE 0

\* first_names, first_initial and last_name of a normalized name that parses
Parts(normalized_name) ==
    LET parts == groupdict(normalized_name)
    IN  [first_names |-> Strip(parts.first),
         first_initial |-> parts.initial,
         last_name |-> Strip(parts.last)]

ScoreOf(entry, p) ==
    CandidateScore(entry.key[1], entry.key[2],
                   p.first_names, p.first_initial, p.last_name)

\* a lookup that prefers the best score to the first entry
ScanPeopleBest(roster, k, p) ==
    LET hits == {m \in k..Len(roster) : ScoreOf(roster[m], p) # 0}
        best == {m \in hits : \A n \in hits :
                   ScoreOf(roster[n], p) <= ScoreOf(roster[m], p)}
    IN  IF hits = {} THEN <<None, 0>>
        ELSE <<roster[Min(best)].key, ScoreOf(roster[Min(best)], p)>>

RECURSIVE ScanPeople(_, _, _)
ScanPeople(roster, k, p) ==
    IF k > Len(roster) THEN <<None, 0>>
    ELSE IF ScoreOf(roster[k], p) # 0
      THEN <<roster[k].key, ScoreOf(roster[k], p)>>
    ELSE ScanPeople(roster, k + 1, p)

approximate_name_lookup(name, roster) ==
    LET normalized_name == normalize_caseless(name)
    IN  IF ~NAME_RE(normalized_name) THEN <<None, 0>>
        ELSE ScanPeople(roster, 1, Parts(normalized_name))

(***************************************************************************)
(* evidence_in_texfile.  A line of a member is [utf8, first, matches]:     *)
(* whether its bytes decode as UTF-8, its first character, and the number  *)
(* of non-overlapping matches of UOFA_RE in it.  The result is             *)
(* [raised, evidence]: raised when a line failed to decode.                *)
(***************************************************************************)
RECURSIVE evidence_in_texfile(_)
evidence_in_texfile(fh) ==
    IF fh = <<>> THEN [raised |-> FALSE, evidence |-> 0]
    ELSE IF ~Head(fh).utf8 THEN [raised |-> TRUE, evidence |-> 0]
    ELSE LET rest == evidence_in_texfile(Tail(fh))
         IN  IF rest.raised \/ Head(fh).first = "%" THEN rest
             ELSE [rest EXCEPT !.evidence = @ + Head(fh).matches]

EndsWith(s, p) ==
    Len(p) <= Len(s) /\ SubSeq(s, Len(s) - Len(p) + 1, Len(s)) = p

\* m.name.lower().endswith('.tex')
IsTexfile(m) ==
    EndsWith([k \in 1..Len(m.name) |-> CaseFoldChar(m.name[k])],
             <<".", "t", "e", "x">>)

\* the loop over texfiles: evidence grows member by member, and an
\* exception (extractfile gives None for a member that is no file, a line
\* does not decode) leaves the loop with the evidence added so far
RECURSIVE ScanTexfiles(_, _)
ScanTexfiles(texfiles, evidence) ==
    IF texfiles = <<>>
      THEN [evidence |-> evidence, gather_success |-> TRUE, raised |-> "none"]
    ELSE IF Head(texfiles).type # "file"
      THEN [evidence |-> evidence, gather_success |-> FALSE,
            raised |-> "extractfile"]
    ELSE LET r == evidence_in_texfile(Head(texfiles).lines)
         IN  IF r.raised
               THEN [evidence |-> evidence, gather_success |-> FALSE,
                     raised |-> "decode"]
               ELSE ScanTexfiles(Tail(texfiles), evidence + r.evidence)

(***************************************************************************)
(* gather_affiliation_evidence (the second definition, which is the one    *)
(* bound at call time).  response is what the network gives for the        *)
(* e-print: [status, members], status "request_fails" when requests.get    *)
(* raises, "not_a_tar" when tarfile.open raises, "archive" otherwise.      *)
(* The result is evidence and gather_success, and which call raised.       *)
(***************************************************************************)
gather_affiliation_evidence(response) ==
    IF response.status = "request_fails"
      THEN [evidence |-> 0, gather_success |-> FALSE,
            raised |-> "requests.get"]
    ELSE IF response.status = "not_a_tar"
      THEN [evidence |-> 0, gather_success |-> FALSE,
            raised |-> "tarfile.open"]
    ELSE ScanTexfiles(SelectSeq(response.members, IsTexfile), 0)

(***************************************************************************)
(* Inputs of the function-level specification.                             *)
(***************************************************************************)
FACULTY == 1

POSTDOC == 2

STUDENT == 3

Rec(role, position) == [role |-> role, position |-> position]

Entry(last_name, first_names, rec) ==
    [key |-> <<last_name, first_names>>, rec |-> rec]

SeqsUpTo(A, n) == UNION {[1..m -> A] : m \in 0..n}

\* the roster of test_approximate_name_lookup
TestPeople ==
    << Entry(<<"d","a","v","e">>, <<"a","."," ","b","o","b"," ","c",".">>,
             Rec(FACULTY, "a")),
       Entry(<<"f","e","r","r","i","s">>, <<"e","d","g","a","r">>,
             Rec(FACULTY, "b")),
       Entry(<<"h","a","u","s","s","c","h","u","h">>,
             <<"g","e","o","r","g","i","n","a">>, Rec(POSTDOC, "c")),
       Entry(<<"r","o","d","r","i","g","o">>,
             <<"m","a","r","c","o"," ","n","a","v","a","r","r","o">>,
             Rec(STUDENT, "d")) >>

LongPeople ==
    << Entry(<<"l","o","n","g">>, <<"j"," ","d","a","v","i","d">>,
             Rec(STUDENT, "e")),
       Entry(<<"l","o","n","g">>, <<"j">>, Rec(POSTDOC, "f")) >>

\* keys over the letters of the generated names; the last has no first
\* names (a page heading with nothing after the comma)
KeyPool ==
    { <<<<"d">>, <<"j","j">>>>, <<<<"d">>, <<"j">>>>,
      <<<<"d">>, <<"j"," ","d","j">>>>, <<<<"d">>, <<>>>> }

IsInjective(f) == \A a, b \in DOMAIN f : f[a] = f[b] => a = b

\* rosters: a dict has no two equal keys
Rosters ==
    {TestPeople, LongPeople} \cup
    { [k \in DOMAIN ks |-> [key |-> ks[k], rec |-> Rec(STUDENT, "g")]] :
        ks \in {x \in SeqsUpTo(KeyPool, MaxPeople) : IsInjective(x)} }

SampleNames ==
    { <<"e","d","g","a","r"," ","f","e","r","r","i","s">>,
      <<"b","o","b"," ","d","a","v","e">>,
      <<"G","."," ","H","a","u","s","s","c","h","u","h">>,
      <<"{","M","."," ","N","a","v","a","r","r","o"," ",
        "R","o","d","r","i","g","o","}">>,
      <<"j"," ","d"," ","l","o","n","g">>,
      <<"J","."," ","L","o","n","g">>,
      <<"L","o","n","g">>,
      <<"U+00C9","."," ","L","o","n","g">> }

Names == SeqsUpTo({"j", "d", " "}, MaxNameLen) \cup SampleNames

SampleTexts ==
    { <<"J","."," ","L","o","n","g">>, <<"j","."," ","l","o","n","g">>,
      <<"U+00C9","."," ","L","o","n","g">>,
      <<"e","."," ","l","o","n","g">> }

Texts == SeqsUpTo({"J", "j", " ", ".", "U+00C9"}, MaxTextLen) \cup SampleTexts

NoCall ==
    [op |-> "none", arg |-> <<>>, roster |-> <<>>, done |-> FALSE,
     result |-> <<>>]

Pending(op, arg, roster) ==
    [op |-> op, arg |-> arg, roster |-> roster, done |-> FALSE,
     result |-> <<>>]

(***************************************************************************)
(* Inputs of the pipeline: the roster build_directory made (its keys are   *)
(* normalized), the entries of the feed, and what the network answers for  *)
(* an e-print.                                                             *)
(***************************************************************************)
RosterA ==
    << Entry(<<"l","o","n","g">>, <<"j","o","s","e","p","h">>, Rec(STUDENT, "grad")),
       Entry(<<"f","e","r","r","i","s">>, <<"e","d","g","a","r">>, Rec(FACULTY, "professor")) >>

RosterB ==
    << Entry(<<"l","o","n","g">>, <<"j">>, Rec(POSTDOC, "fellow")),
       Entry(<<"f","e","r","r","i","s">>, <<"e","d","g","a","r">>, Rec(FACULTY, "professor")),
       Entry(<<"l","o","n","g">>, <<"j","o","s","e","p","h">>, Rec(STUDENT, "grad")) >>

PipelineRosters == {RosterA, RosterB}

PostPool ==
    { [id |-> "2401.00001", author |-> <<"L","o","n","g">>],
      [id |-> "2401.00002", author |-> <<"J","."," ","L","o","n","g">>],
      [id |-> "2401.00003", author |-> <<"J","o","s","e","p","h"," ","L","o","n","g",","," ","E","d","g","a","r"," ","F","e","r","r","i","s">>],
      [id |-> "2401.00004", author |-> <<"E","d","g","a","r"," ","F","e","r","r","i","s",","," ","A","."," ","S","m","i","t","h">>] }

Feeds == SeqsUpTo(PostPool, MaxFeed)

Line(utf8, first, matches) ==
    [utf8 |-> utf8, first |-> first, matches |-> matches]

MemberPool ==
    { [name |-> <<"m","a","i","n",".","t","e","x">>, type |-> "file",
       lines |-> <<Line(TRUE, "\\", 0), Line(TRUE, "%", 1),
                   Line(TRUE, "S", 1)>>],
      [name |-> <<"A","P","P","E","N","D","I","X",".","T","E","X">>, type |-> "file",
       lines |-> <<Line(TRUE, "T", 1)>>],
      [name |-> <<"m","a","c","r","o","s",".","t","e","x">>, type |-> "file",
       lines |-> <<Line(TRUE, "%", 2), Line(TRUE, "x", 0)>>],
      [name |-> <<"l","a","t","i","n","1",".","t","e","x">>, type |-> "file",
       lines |-> <<Line(TRUE, "U", 1), Line(FALSE, "?", 0)>>],
      [name |-> <<"o","l","d",".","t","e","x">>, type |-> "dir", lines |-> <<>>],
      [name |-> <<"f","i","g",".","p","s">>, type |-> "file",
       lines |-> <<Line(FALSE, "?", 0)>>] }

Responses ==
    { [status |-> "request_fails", members |-> <<>>],
      [status |-> "not_a_tar", members |-> <<>>] }
    \cup { [status |-> "archive", members |-> ms] :
             ms \in SeqsUpTo(MemberPool, MaxMembers) }

\* what gather_affiliation_evidence returns over these answers
GatherResults == {gather_affiliation_evidence(r) : r \in Responses}

(***************************************************************************)
(* unpack_feed_entry.  A post is [id, author]: author is the comma-        *)
(* separated author list.                                                  *)
(***************************************************************************)
\* s.split(',')
RECURSIVE SplitComma(_)
SplitComma(s) ==
    LET commas == {k \in 1..Len(s) : s[k] = ","}
    IN  IF commas = {} THEN <<s>>
        ELSE LET n == Min(commas)
             IN  <<SubSeq(s, 1, n - 1)>>
                   \o SplitComma(SubSeq(s, n + 1, Len(s)))

\* author_names
AuthorNames(post) ==
    LET parts == SplitComma(post.author)
    IN  [k \in 1..Len(parts) |-> Strip(parts[k])]

\* authors: (name, (key, score)) for each author name
Authors(post, roster) ==
    LET author_names == AuthorNames(post)
    IN  [k \in 1..Len(author_names) |->
           <<author_names[k],
             approximate_name_lookup(author_names[k], roster)>>]

RECURSIVE SumScores(_)
SumScores(authors) ==
    IF authors = <<>> THEN 0
    ELSE Head(authors)[2][2] + SumScores(Tail(authors))

\* Authors(post, roster), tabulated once for the posts and rosters above
AuthorsTable ==
    {<<p, r, Authors(p, r)>> : p \in PostPool, r \in PipelineRosters}

AuthorsOf(post, roster) ==
    (CHOOSE t \in AuthorsTable : t[1] = post /\ t[2] = roster)[3]

\* the first return with the bar at 0
RejectsOnScoreBelowZero(our_people_score, demo) ==
    our_people_score < 0 /\ ~demo

\* the first return without the demo switch
RejectsOnScoreAlsoInDemo(our_people_score, demo) == our_people_score < 1

\* the first return: our_people_score < 1 and not DEMO_MODE
RejectsOnScore(our_people_score, demo) == our_people_score < 1 /\ ~demo

\* the returns after gathering with the bar of a failed gathering at 3
RejectsOnEvidenceHighBar(evidence, gather_success, our_people_score) ==
    \/ gather_success /\ evidence = 0
    \/ ~gather_success /\ our_people_score <= 2

\* the returns after gathering
RejectsOnEvidence(evidence, gather_success, our_people_score) ==
    \/ gather_success /\ evidence = 0
    \/ ~gather_success /\ our_people_score < 2

NotGathered == [evidence |-> 0, gather_success |-> FALSE, raised |-> "none"]

\* The call's locals and what it returns: out is <<>> for None, and the
\* dict in a one-element tuple otherwise; gathered tells whether
\* gather_affiliation_evidence was called, and g is what it returns for
\* the answer of the network when it is.
unpack_feed_entry(post, roster, demo, g) ==
    LET authors == AuthorsOf(post, roster)
        our_people_score == SumScores(authors)
        dict == [authors |-> authors, arxiv_id |-> post.id]
        base == [valid |-> TRUE, authors |-> authors,
                 our_people_score |-> our_people_score,
                 gathered |-> FALSE, gather |-> NotGathered, out |-> <<>>]
    IN  IF RejectsOnScore(our_people_score, demo) THEN base
        ELSE IF demo THEN [base EXCEPT !.out = <<dict>>]
        ELSE IF RejectsOnEvidence(g.evidence, g.gather_success,
                                  our_people_score)
          THEN [base EXCEPT !.gathered = TRUE, !.gather = g]
        ELSE [base EXCEPT !.gathered = TRUE, !.gather = g, !.out = <<dict>>]

NoUnpack ==
    [valid |-> FALSE, authors |-> <<>>, our_people_score |-> 0,
     gathered |-> FALSE, gather |-> NotGathered, out |-> <<>>]

(***************************************************************************)
(* get_matching_posts.                                                     *)
(***************************************************************************)
\* people[key]
RosterRec(roster, key) ==
    roster[CHOOSE k \in 1..Len(roster) : roster[k].key = key].rec

\* a < b for str: by code point, a proper prefix first
RECURSIVE StrLess(_, _)
StrLess(a, b) ==
    IF b = <<>> THEN FALSE
    ELSE IF a = <<>> THEN TRUE
    ELSE IF Head(a) # Head(b) THEN Ord(Head(a)) < Ord(Head(b))
    ELSE StrLess(Tail(a), Tail(b))

\* a < b for the keys, tuples (last name, first names)
KeyLess(a, b) ==
    IF a[1] # b[1] THEN StrLess(a[1], b[1]) ELSE StrLess(a[2], b[2])

\* (key, record) tuples compare by the key; with equal keys the records are
\* the same object of the roster and the tuples are equal
PairLess(x, y) == KeyLess(x[1], y[1])

RECURSIVE InsertSorted(_, _)
InsertSorted(sorted, x) ==
    IF sorted = <<>> THEN <<x>>
    ELSE IF PairLess(x, Head(sorted)) THEN <<x>> \o sorted
    ELSE <<Head(sorted)>> \o InsertSorted(Tail(sorted), x)

\* all_authors left in the order of the appends
Unsorted(pairs) == pairs

\* all_authors.sort(): stable, ascending
RECURSIVE Sort(_)
Sort(pairs) ==
    IF pairs = <<>> THEN <<>>
    ELSE InsertSorted(Sort(SubSeq(pairs, 1, Len(pairs) - 1)),
                      pairs[Len(pairs)])

\* the (key, people[key]) appended for the authors of an unpacked post
MatchedPairs(authors, roster) ==
    LET matched == SelectSeq(authors, LAMBDA a : a[2][1] # None)
    IN  [k \in 1..Len(matched) |->
           <<matched[k][2][1], RosterRec(roster, matched[k][2][1])>>]

(***************************************************************************)
(* The function-level specification: the initial state holds the arguments *)
(* of one call, and the action of the function called applies it.          *)
(***************************************************************************)
CallNormalizeCaseless ==
    /\ call.op = "normalize_caseless" /\ ~call.done
    /\ call' = [call EXCEPT !.done = TRUE,
                            !.result = normalize_caseless(call.arg)]
    /\ UNCHANGED pipeVars

CallStripInitials ==
    /\ call.op = "strip_initials" /\ ~call.done
    /\ call' = [call EXCEPT !.done = TRUE,
                            !.result = strip_initials(call.arg)]
    /\ UNCHANGED pipeVars

CallApproximateNameLookup ==
    /\ call.op = "approximate_name_lookup" /\ ~call.done
    /\ call' = [call EXCEPT
                  !.done = TRUE,
                  !.result = approximate_name_lookup(call.arg, call.roster)]
    /\ UNCHANGED pipeVars

InitNames ==
    /\ call \in {Pending("normalize_caseless", t, <<>>) : t \in Texts}
          \cup {Pending("strip_initials", t, <<>>) : t \in Texts}
          \cup {Pending("approximate_name_lookup", n, r) :
                  n \in Names, r \in Rosters}
    /\ DEMO_MODE = FALSE
    /\ people = <<>>
    /\ feed = <<>>
    /\ pc = "start"
    /\ idx = 1
    /\ posts = <<>>
    /\ all_authors = <<>>
    /\ last = NoUnpack
    /\ decisions = <<>>
    /\ returned = None

NextNames ==
    \/ CallNormalizeCaseless
    \/ CallStripInitials
    \/ CallApproximateNameLookup

SpecNames == InitNames /\ [][NextNames]_vars

(***************************************************************************)
(* The statements checked under SpecNames.                                 *)
(***************************************************************************)
IsLookup == call.op = "approximate_name_lookup" /\ call.done

Parses == NAME_RE(normalize_caseless(call.arg))

Query == Parts(normalize_caseless(call.arg))

\* stripInitials as the specification words it: the whitespace-separated
\* tokens that are one word character, optionally followed by a period,
\* are removed, and the others are joined by one space
IsInitialWord(s, a, b) ==
    /\ IsWord(s[a])
    /\ (b = a \/ (b = a + 1 /\ s[b] = "."))

TokenAt(s, k) ==
    LET a == CHOOSE a \in 1..k :
               /\ \A m \in a..k : ~IsSpace(s[m])
               /\ (a = 1 \/ IsSpace(s[a - 1]))
        b == CHOOSE b \in k..Len(s) :
               /\ \A m \in k..b : ~IsSpace(s[m])
               /\ (b = Len(s) \/ IsSpace(s[b + 1]))
    IN  <<a, b>>

SpecStripInitials(s) ==
    LET gone == {k \in 1..Len(s) :
                   /\ ~IsSpace(s[k])
                   /\ IsInitialWord(s, TokenAt(s, k)[1], TokenAt(s, k)[2])}
    IN  JoinSplit(Remove(s, gone, 1))

\* the rules of the specification's MatchScorer, each as a whole
Rule1(pf, q) == pf = q.first_names

Rule2(pf, q) == StartsWith(q.first_names, pf)

Rule3(pf, q) ==
    /\ Contains(pf, q.first_names) /\ pf # q.first_names
    /\ q.first_names # q.first_initial
    /\ StartsWith(SpecStripInitials(pf), q.first_names)

Rule4(pf, q) ==
    /\ Contains(q.first_names, pf)
    /\ StartsWith(SpecStripInitials(q.first_names), pf)

Rule5(pf, q) ==
    /\ pf # <<>> /\ pf[1] = q.first_initial[1]
    /\ INITIAL_RE(q.first_names)

\* C3: a candidate with the query's last name for which rules 1 and 2 do not
\* hold and rule 3 holds (the query's first names are a proper substring of
\* the candidate's, are not the bare initial, and stripInitials of the
\* candidate's first names starts with them) scores 2; and the lookup of
\* 'bob dave' in the test roster returns (('dave', 'a. bob c.'), 2).
C3_Rule3ScoresTwo ==
    (IsLookup /\ Parses) =>
      /\ \A k \in 1..Len(call.roster) :
           LET e == call.roster[k]
           IN  (/\ e.key[1] = Query.last_name
                /\ ~Rule1(e.key[2], Query) /\ ~Rule2(e.key[2], Query)
                /\ Rule3(e.key[2], Query))
               => ScoreOf(e, Query) = 2
      /\ (call.arg = <<"b","o","b"," ","d","a","v","e">>
            /\ call.roster = TestPeople)
         => call.result = <<TestPeople[1].key, 2>>

\* C4: the lookup returns the first roster entry, in insertion order, whose
\* score is not 0, with that score (1 or 2), whatever later entries score;
\* it returns (None, 0) when no entry scores or the name does not parse; so
\* the score is 0 exactly when the key is None, and a key returned is a key
\* of the roster.
C4_FirstNonzeroCandidate ==
    IsLookup =>
      LET key == call.result[1]
          score == call.result[2]
          hits == IF Parses
                    THEN {k \in 1..Len(call.roster) :
                            ScoreOf(call.roster[k], Query) # 0}
                    ELSE {}
      IN  /\ score \in {0, 1, 2}
          /\ (score = 0) <=> (key = None)
          /\ key # None => \E k \in 1..Len(call.roster) :
                              call.roster[k].key = key
          /\ IF hits = {} THEN call.result = <<None, 0>>
             ELSE LET k == Min(hits)
                  IN  /\ call.result =
                           <<call.roster[k].key, ScoreOf(call.roster[k], Query)>>
                      /\ score \in {1, 2}

\* a lookup that returned an entry scoring 1 although a later entry with the
\* same last name scores 2
C4_Witness ==
    /\ IsLookup /\ Parses
    /\ call.result[2] = 1
    /\ \E k \in 1..Len(call.roster) :
         /\ call.roster[k].key # call.result[1]
         /\ call.roster[k].key[1] = call.result[1][1]
         /\ ScoreOf(call.roster[k], Query) = 2

\* C5: strip_initials removes exactly the tokens that are one word character
\* optionally followed by a period, keeps every longer word, and collapses
\* the whitespace left; strip_initials('J. Long') is 'Long'.
C5_StripInitialsRemovesOnlyInitials ==
    (call.op = "strip_initials" /\ call.done) =>
      /\ call.result = SpecStripInitials(call.arg)
      /\ call.arg = <<"J","."," ","L","o","n","g">>
           => call.result = <<"L","o","n","g">>

\* C8: normalize_caseless is idempotent: normalizing its result changes
\* nothing, also for accented letters that NFKD decomposes.
C8_NormalizeIdempotent ==
    (call.op = "normalize_caseless" /\ call.done) =>
      normalize_caseless(call.result) = call.result

\* C10: a candidate with the query's last name for which none of rules 1 to 4
\* holds as a whole, whose first names start with the query's first initial,
\* and whose query's first names are an initial token, scores 1.
C10_Rule5AfterFailedRules ==
    (IsLookup /\ Parses) =>
      \A k \in 1..Len(call.roster) :
        LET e == call.roster[k]
        IN  (/\ e.key[1] = Query.last_name
             /\ ~Rule1(e.key[2], Query) /\ ~Rule2(e.key[2], Query)
             /\ ~Rule3(e.key[2], Query) /\ ~Rule4(e.key[2], Query)
             /\ Rule5(e.key[2], Query))
            => ScoreOf(e, Query) = 1

(***************************************************************************)
(* The pipeline: main reads the -d flag and calls get_matching_posts,      *)
(* which leaves when the feed is stale and otherwise unpacks the entries   *)
(* one by one; the sort and the return follow the last entry.              *)
(***************************************************************************)
Init ==
    /\ DEMO_MODE = FALSE
    /\ people \in PipelineRosters
    /\ feed \in Feeds
    /\ pc = "start"
    /\ idx = 1
    /\ posts = <<>>
    /\ all_authors = <<>>
    /\ last = NoUnpack
    /\ decisions = <<>>
    /\ returned = None
    /\ call = NoCall

Records(pairs) == [k \in 1..Len(pairs) |-> pairs[k][2]]

Start ==
    /\ pc = "start"
    /\ \E d \in BOOLEAN, stale \in BOOLEAN :
         /\ DEMO_MODE' = d
         /\ IF stale
              THEN pc' = "exit" /\ UNCHANGED returned
              ELSE IF feed = <<>>
                THEN /\ pc' = "done"
                     /\ returned' = <<[posts |-> <<>>, all_authors |-> <<>>]>>
                ELSE pc' = "loop" /\ UNCHANGED returned
    /\ UNCHANGED <<people, feed, idx, posts, all_authors, last, decisions,
                   call>>

ProcessPost ==
    /\ pc = "loop"
    /\ \E g \in GatherResults :
         LET unpacked_post ==
               unpack_feed_entry(feed[idx], people, DEMO_MODE, g)
             kept == unpacked_post.out # <<>>
             posts2 == IF kept THEN Append(posts, unpacked_post.out[1])
                       ELSE posts
             appended ==
               IF kept
                 THEN all_authors
                        \o MatchedPairs(unpacked_post.out[1].authors, people)
                 ELSE all_authors
         IN  /\ last' = unpacked_post
             /\ decisions' = Append(decisions, kept)
             /\ posts' = posts2
             /\ idx' = idx + 1
             /\ IF idx = Len(feed)
                  THEN /\ all_authors' = Sort(appended)
                       /\ returned' =
                            <<[posts |-> posts2,
                               all_authors |-> Records(Sort(appended))]>>
                       /\ pc' = "done"
                  ELSE /\ all_authors' = appended
                       /\ pc' = "loop"
                       /\ UNCHANGED returned
    /\ UNCHANGED <<DEMO_MODE, people, feed, call>>

Next == Start \/ ProcessPost

Spec == Init /\ [][Next]_vars

(***************************************************************************)
(* The statements checked under Spec.  last holds the locals and the       *)
(* result of the latest call of unpack_feed_entry.                         *)
(***************************************************************************)
Accepted == last.out # <<>>

AllFailToParse(authors) ==
    \A k \in DOMAIN authors : ~NAME_RE(normalize_caseless(authors[k][1]))

\* a name that is one word: word characters only, no '.' or ' ' between
IsSingleWord(name) == name # <<>> /\ \A k \in DOMAIN name : IsWord(name[k])

\* C1: with demo mode off and a total score of at least 1, the evidence
\* result decides: gathered with no match rejects, whatever the score; not
\* gathered rejects a score of 1 and accepts a score of 2 or more; gathered
\* with a match accepts.
C1_EvidenceDecides ==
    (last.valid /\ ~DEMO_MODE /\ last.our_people_score >= 1) =>
      LET count == last.gather.evidence
          gathered == last.gather.gather_success
          totalScore == last.our_people_score
      IN  /\ last.gathered
          /\ (gathered /\ count = 0) => ~Accepted
          /\ (~gathered /\ totalScore = 1) => ~Accepted
          /\ (~gathered /\ totalScore >= 2) => Accepted
          /\ (gathered /\ count >= 1) => Accepted

\* an entry of score 2 or more accepted although the gathering failed
C1_Witness ==
    /\ last.valid /\ ~DEMO_MODE
    /\ last.our_people_score >= 2
    /\ last.gathered /\ ~last.gather.gather_success
    /\ Accepted

C6_FailedGatherCountsZero ==
    (last.valid /\ last.gathered /\ ~last.gather.gather_success) =>
      last.gather.evidence = 0

\* the entries of the feed that were unpacked to a post
AcceptedEntries == {i \in 1..Len(feed) : decisions[i]}

\* the author entries with matched key on the accepted entries
MatchedEntries(key) ==
    UNION { {<<i, k>> : k \in {k \in DOMAIN AuthorsOf(feed[i], people) :
                                 AuthorsOf(feed[i], people)[k][2][1] = key}} :
            i \in AcceptedEntries }

\* C7: when get_matching_posts has returned, all_authors holds one record for
\* each author entry with a matched key on an accepted entry of the feed,
\* none for a rejected entry, duplicates kept, by non-decreasing key (last
\* name, then first names); so it depends only on the entries accepted, not
\* on their order.
C7_AllAuthorsSortedByKey ==
    (pc = "done") =>
      /\ Len(decisions) = Len(feed)
      /\ Len(posts) = Cardinality(AcceptedEntries)
      /\ returned[1].posts = posts
      /\ \A i \in 1..(Len(all_authors) - 1) :
           ~KeyLess(all_authors[i + 1][1], all_authors[i][1])
      /\ \A i \in 1..Len(all_authors) :
           \E e \in 1..Len(people) :
             all_authors[i] = <<people[e].key, people[e].rec>>
      /\ \A e \in 1..Len(people) :
           Cardinality({i \in 1..Len(all_authors) :
                          all_authors[i][1] = people[e].key})
             = Cardinality(MatchedEntries(people[e].key))
      /\ returned[1].all_authors = Records(all_authors)

\* a run that accepted two entries and rejected one with a matched author,
\* where one person is on two accepted entries and an accepted entry lists
\* its matched authors against the order of the keys
C7_Witness ==
    /\ pc = "done"
    /\ Cardinality(AcceptedEntries) >= 2
    /\ \E i \in 1..(Len(all_authors) - 1) : all_authors[i] = all_authors[i + 1]
    /\ \E i \in AcceptedEntries :
         LET authors == AuthorsOf(feed[i], people)
         IN  /\ Len(authors) >= 2
             /\ authors[1][2][1] # None /\ authors[2][2][1] # None
             /\ KeyLess(authors[2][2][1], authors[1][2][1])
    /\ \E i \in 1..Len(feed) :
         /\ ~decisions[i]
         /\ SumScores(AuthorsOf(feed[i], people)) >= 1

====
